---------------------------- MODULE Spec2Model ----------------------------
(***************************************************************************)
(* Model of the control-plane web API of infrared (api/api.go): bearer     *)
(* authentication in front of every route, and CRUD over a directory of    *)
(* one JSON file per proxy configuration.  Strings are sequences of        *)
(* one-character strings; the directory has POSIX semantics: a directory   *)
(* entry names an inode, an open descriptor keeps its inode, and rename    *)
(* moves the entry.                                                        *)
(***************************************************************************)
EXTENDS Naturals, Sequences, FiniteSets, Bags, TLC

(***************************************************************************)
(* Bounds of the model.                                                    *)
(***************************************************************************)
\* number of POST requests that may be between their steps at one time
MaxInFlight == 2
\* number of bytes a write that fails may have stored before it failed
ShortWrite == 1

(***************************************************************************)
(* Strings.                                                                *)
(***************************************************************************)
Bearer == <<"B", "e", "a", "r", "e", "r">>
Space == <<" ">>
JsonExt == <<".", "j", "s", "o", "n">>
TempExt == <<".", "t", "e", "m", "p">>

\* the characters of file names, in byte order
CharOrder == <<".", "a", "b", "e", "j", "m", "n", "o", "p", "s", "t">>

CharRank(c) == CHOOSE i \in 1..Len(CharOrder) : CharOrder[i] = c

\* s < t in the byte-wise order of strings (the order of ioutil.ReadDir)
RECURSIVE StrLess(_, _)
StrLess(s, t) ==
    IF t = <<>> THEN FALSE
    ELSE IF s = <<>> THEN TRUE
    ELSE IF Head(s) = Head(t) THEN StrLess(Tail(s), Tail(t))
    ELSE CharRank(Head(s)) < CharRank(Head(t))

HasPrefix(s, p) == Len(s) >= Len(p) /\ SubSeq(s, 1, Len(p)) = p

\* index of the first occurrence of sep in s, 0 when there is none
Index(s, sep) ==
    LET hits == {i \in 1..Len(s) : HasPrefix(SubSeq(s, i, Len(s)), sep)}
    IN  IF hits = {} THEN 0 ELSE CHOOSE i \in hits : \A j \in hits : i <= j

\* strings.Split(s, sep) for a non-empty sep
RECURSIVE Split(_, _)
Split(s, sep) ==
    LET i == Index(s, sep)
    IN  IF i = 0 THEN <<s>>
        ELSE <<SubSeq(s, 1, i - 1)>> \o Split(SubSeq(s, i + Len(sep), Len(s)), sep)


(***************************************************************************)
(* Inputs of the model: route names, Authorization headers, bearer tokens  *)
(* of the API configuration file, and request bodies.                      *)
(***************************************************************************)
Names == {<<"a">>, <<"a">> \o JsonExt}

Secrets == {<<"s">>, <<"s", " ", "t">>}

\* the BearerToken field right after process start (the zero value)
NoSecret == <<>>

Headers ==
    {<<>>, Bearer, Bearer \o Space,
     Bearer \o Space \o <<"s">>,
     Bearer \o Space \o <<"t">>,
     Bearer \o Space \o <<"s", " ", "t">>,
     Bearer \o Space \o Space \o <<"s">>,
     <<"b", "e", "a", "r", "e", "r", " ", "s">>}

(***************************************************************************)
(* A request body is a sequence of bytes.  The bytes of the model are the  *)
(* lexical units of a JSON object: the braces, and one byte per member:    *)
(*   D  "domainNames":["x"]      d  "domainNames":[]                       *)
(*   P  "proxyTo":"y"            p  "proxyTo":""                           *)
(*   X  a member the API does not look at                                  *)
(***************************************************************************)
Members == {"D", "d", "P", "p", "X"}

V1 == <<"{", "D", "P", "}">>
V2 == <<"{", "D", "P", "X", "}">>

Bodies ==
    {<<>>, <<"{", "}">>, <<"{", "D", "}">>, <<"{", "P", "}">>,
     <<"{", "d", "P", "}">>, <<"{", "D", "p", "}">>, <<"{", "D", "P">>,
     V1, V2}

\* the last member of raw among the two given, "" when neither occurs
LastOf(raw, m1, m2) ==
    LET at == {i \in 1..Len(raw) : raw[i] \in {m1, m2}}
    IN  IF at = {} THEN "" ELSE raw[CHOOSE i \in at : \A j \in at : j <= i]

\* json.Unmarshal(rawData, &cfg) for an infrared.ProxyConfig
Unmarshal(raw) ==
    IF /\ Len(raw) >= 2
       /\ raw[1] = "{"
       /\ raw[Len(raw)] = "}"
       /\ \A i \in 2..(Len(raw) - 1) : raw[i] \in Members
    THEN [err |-> FALSE,
          DomainNames |-> IF LastOf(raw, "D", "d") = "D" THEN <<"x">> ELSE <<>>,
          ProxyTo |-> IF LastOf(raw, "P", "p") = "P" THEN "y" ELSE ""]
    ELSE [err |-> TRUE, DomainNames |-> <<>>, ProxyTo |-> ""]

\* the second check with && written for ||
JSONIsValid_BothMissing(raw) ==
    LET cfg == Unmarshal(raw)
    IN  IF cfg.err THEN FALSE
        ELSE IF Len(cfg.DomainNames) < 1 /\ cfg.ProxyTo = "" THEN FALSE
        ELSE TRUE

\* the two checks of checkJSONAndRegister that precede the write
JSONIsValid(raw) ==
    LET cfg == Unmarshal(raw)
    IN  IF cfg.err THEN FALSE
        ELSE IF Len(cfg.DomainNames) < 1 \/ cfg.ProxyTo = "" THEN FALSE
        ELSE TRUE

(***************************************************************************)
(* authenticateMiddleware: the status it answers with, 0 when it calls     *)
(* the wrapped handler.                                                    *)
(***************************************************************************)
StatusOK == 200
StatusNoContent == 204
StatusBadRequest == 400
StatusUnauthorized == 401
StatusNotFound == 404
StatusInternalServerError == 500

\* the middleware looking at the format before the presence of the header
AuthReason_FormatFirst(authHeader, token) ==
    LET headerParts == Split(authHeader, Space)
    IN  IF Len(headerParts) # 2 \/ headerParts[1] # Bearer
        THEN "Invalid authorization header format"
        ELSE IF authHeader = <<>> THEN "No authorization header provided"
        ELSE IF headerParts[2] # token THEN "Invalid token"
        ELSE "next"

\* the middleware without the comparison of the token
AuthReason_AnyToken(authHeader, token) ==
    IF authHeader = <<>> THEN "No authorization header provided"
    ELSE LET headerParts == Split(authHeader, Space)
         IN  IF Len(headerParts) # 2 \/ headerParts[1] # Bearer
             THEN "Invalid authorization header format"
             ELSE "next"

AuthReason(authHeader, token) ==
    IF authHeader = <<>> THEN "No authorization header provided"
    ELSE LET headerParts == Split(authHeader, Space)
         IN  IF Len(headerParts) # 2 \/ headerParts[1] # Bearer
             THEN "Invalid authorization header format"
             ELSE IF headerParts[2] # token THEN "Invalid token"
             ELSE "next"

Authenticated(authHeader, token) == AuthReason(authHeader, token) = "next"


(***************************************************************************)
(* The configuration directory.  Route name n owns two directory entries:  *)
(* n.json (final) and n.json.temp (temp); no entry of one name is an entry *)
(* of another.                                                             *)
(***************************************************************************)
NoFile == [exists |-> FALSE, data |-> <<>>]
File(data) == [exists |-> TRUE, data |-> data]

FileName(n) == n \o JsonExt
TempPath(n) == FileName(n) \o TempExt

\* the names of the entries of directory dir
DirEntries(dir) ==
    {FileName(n) : n \in {m \in Names : dir[m].final.exists}}
        \cup {TempPath(n) : n \in {m \in Names : dir[m].temp.exists}}

\* the entries sorted by name, as ioutil.ReadDir returns them
RECURSIVE SortByName(_)
SortByName(S) ==
    IF S = {} THEN <<>>
    ELSE LET first == CHOOSE f \in S : \A g \in S \ {f} : StrLess(f, g)
         IN  <<first>> \o SortByName(S \ {first})

\* the loop of getProxies over the entries
ListConfigs(files) == [i \in 1..Len(files) |-> Split(files[i], JsonExt)[1]]

\* a write of the first k bytes of data at offset 0 of a file holding old
WriteAt0(old, data, k) == SubSeq(data, 1, k) \o SubSeq(old, k + 1, Len(old))

\* http.ResponseWriter.Write after WriteHeader(status): a 204 carries no body
Written(status, body) == IF status = StatusNoContent THEN <<>> ELSE body

SuccessMsg == <<"{'success': true, 'message': 'the proxy has been added succesfully'}">>
FailMsg == <<"{'success': false, 'message': 'domainNames and proxyTo could not be found'}">>
RemoveErrMsg == <<"remove: error">>

(***************************************************************************)
(* State.                                                                  *)
(***************************************************************************)
VARIABLES
    srv,        \* where ListenAndServe is: "boot", "loaded", "serving", "fatal", "ended"
    secret,     \* config.BearerToken
    listener,   \* the toggle the process found and where it took its listener from
    fs,         \* the configuration directory: name -> [final, temp]
    inflight,   \* bag of the POST handlers that are between two file system calls
    last        \* the request answered last, with its response

vars == <<srv, secret, listener, fs, inflight, last>>

\* no listener taken yet
NoListener == [tableflip |-> FALSE, from |-> "none"]

NoRequest ==
    [method |-> "none", route |-> "", name |-> <<>>, hdr |-> <<>>, body |-> <<>>,
     status |-> 0, out |-> <<>>, list |-> <<>>, chg |-> {}, fault |-> FALSE]

Init ==
    /\ srv = "boot"
    /\ secret = NoSecret
    /\ listener = NoListener
    /\ fs = [n \in Names |-> [final |-> NoFile, temp |-> NoFile]]
    /\ inflight = EmptyBag
    /\ last = NoRequest

\* the directory entries of name n whose presence or content differs
Changed(old, new, n) ==
    {e \in {"final", "temp"} : old[n][e] # new[n][e]}

\* the handlers of bag B, each replaced by f[it]
MapBag(B, f) ==
    LET img == {f[q] : q \in BagToSet(B)}
        RECURSIVE Sum(_)
        Sum(S) == IF S = {} THEN 0
                  ELSE LET q == CHOOSE x \in S : TRUE IN B[q] + Sum(S \ {q})
    IN  [r \in img |-> Sum({q \in BagToSet(B) : f[q] = r})]

\* after the entry `from` of name n became the entry `to` ("orphan": no entry),
\* the descriptors opened through it follow their inode
Moved(B, n, from, to) ==
    MapBag(B, [q \in BagToSet(B) |->
                 IF q.name = n /\ q.at = from THEN [q EXCEPT !.at = to] ELSE q])

Put(B, q) == B (+) SetToBag({q})
Take(B, q) == B (-) SetToBag({q})

GoodHeader == Bearer \o Space \o secret

(***************************************************************************)
(* Startup: ListenAndServe.                                                *)
(***************************************************************************)
\* the API configuration file: unreadable, not JSON, or JSON with the token
ConfigFiles ==
    {[readable |-> FALSE, json |-> FALSE, bearerToken |-> NoSecret],
     [readable |-> TRUE, json |-> FALSE, bearerToken |-> NoSecret],
     [readable |-> TRUE, json |-> TRUE, bearerToken |-> NoSecret]}
        \cup {[readable |-> TRUE, json |-> TRUE, bearerToken |-> t] : t \in Secrets}

\* LoadConfig without the check of an empty token
LoadConfigErr_EmptyAccepted(file) ==
    IF ~file.readable THEN "read"
    ELSE IF ~file.json THEN "unmarshal"
    ELSE "nil"

\* LoadConfig: the error it returns
LoadConfigErr(file) ==
    IF ~file.readable THEN "read"
    ELSE IF ~file.json THEN "unmarshal"
    ELSE IF file.bearerToken = NoSecret THEN "bearer token not found in config file"
    ELSE "nil"

LoadConfig(file) ==
    /\ srv = "boot"
    /\ secret' = IF file.readable /\ file.json THEN file.bearerToken ELSE secret
    /\ srv' = IF LoadConfigErr(file) = "nil" THEN "loaded" ELSE "fatal"
    /\ UNCHANGED <<listener, fs, inflight, last>>

\* a failed bind ends the process as a failed load does
Listen_FatalOnFailure(tableflip, bindOK) ==
    /\ srv = "loaded"
    /\ listener' = [tableflip |-> tableflip,
                     from |-> IF tableflip THEN "upgrade" ELSE "direct"]
    /\ srv' = IF bindOK THEN "serving" ELSE "fatal"
    /\ UNCHANGED <<secret, fs, inflight, last>>

\* the listener: infrared.Upg.Listen when tableflip is enabled, else the bind of
\* http.ListenAndServe; a failure is logged and the function returns
Listen(tableflip, bindOK) ==
    /\ srv = "loaded"
    /\ listener' = [tableflip |-> tableflip,
                     from |-> IF tableflip THEN "upgrade" ELSE "direct"]
    /\ srv' = IF bindOK THEN "serving" ELSE "ended"
    /\ UNCHANGED <<secret, fs, inflight, last>>

\* http.Serve returns an error: the function returns, running handlers go on
ServeReturn ==
    /\ srv = "serving"
    /\ srv' = "ended"
    /\ UNCHANGED <<secret, listener, fs, inflight, last>>

\* the process dies and is started again: the directory is what remains
Crash ==
    /\ srv # "boot"
    /\ srv' = "boot"
    /\ secret' = NoSecret
    /\ listener' = NoListener
    /\ inflight' = EmptyBag
    /\ last' = NoRequest
    /\ UNCHANGED fs

(***************************************************************************)
(* Handlers.  Every route is registered behind authenticateMiddleware.     *)
(* In a response, fault says that a file system call of the answering step *)
(* failed for a reason the directory does not show (an I/O error).         *)
(***************************************************************************)
Answer(method, route, name, hdr, body, status, out, list, chg, fault) ==
    last' = [method |-> method, route |-> route, name |-> name, hdr |-> hdr,
             body |-> body, status |-> status, out |-> Written(status, out),
             list |-> list, chg |-> chg, fault |-> fault]

Deny(method, route, name, hdr, body) ==
    Answer(method, route, name, hdr, body, StatusUnauthorized,
           <<AuthReason(hdr, secret)>>, <<>>, {}, FALSE)

\* GET / registered without the middleware
getHome_NoAuth(hdr) ==
    /\ srv = "serving"
    /\ Answer("GET", "/", <<>>, hdr, <<>>, StatusOK, <<>>, <<>>, {}, FALSE)
    /\ UNCHANGED <<srv, secret, listener, fs, inflight>>

\* GET /
getHome(hdr) ==
    /\ srv = "serving"
    /\ IF ~Authenticated(hdr, secret)
       THEN Deny("GET", "/", <<>>, hdr, <<>>)
       ELSE Answer("GET", "/", <<>>, hdr, <<>>, StatusOK, <<>>, <<>>, {}, FALSE)
    /\ UNCHANGED <<srv, secret, listener, fs, inflight>>

\* GET /proxies
getProxies(hdr, readDirOK) ==
    /\ srv = "serving"
    /\ IF ~Authenticated(hdr, secret)
       THEN Deny("GET", "/proxies", <<>>, hdr, <<>>)
       ELSE IF ~readDirOK
       THEN Answer("GET", "/proxies", <<>>, hdr, <<>>, StatusInternalServerError,
                   <<>>, <<>>, {}, TRUE)
       ELSE Answer("GET", "/proxies", <<>>, hdr, <<>>, StatusOK, <<>>,
                   ListConfigs(SortByName(DirEntries(fs))), {}, FALSE)
    /\ UNCHANGED <<srv, secret, listener, fs, inflight>>

\* GET /proxies/{name}
getProxy(name, hdr, openOK, readOK) ==
    /\ srv = "serving"
    /\ IF ~Authenticated(hdr, secret)
       THEN Deny("GET", "/proxies/{name}", name, hdr, <<>>)
       ELSE IF ~(openOK /\ fs[name].final.exists)
       THEN Answer("GET", "/proxies/{name}", name, hdr, <<>>, StatusNotFound,
                   <<>>, <<>>, {}, ~openOK)
       ELSE IF ~readOK
       THEN Answer("GET", "/proxies/{name}", name, hdr, <<>>,
                   StatusInternalServerError, <<>>, <<>>, {}, TRUE)
       ELSE Answer("GET", "/proxies/{name}", name, hdr, <<>>, StatusOK,
                   fs[name].final.data, <<>>, {}, FALSE)
    /\ UNCHANGED <<srv, secret, listener, fs, inflight>>

\* DELETE /proxies/{name}
removeProxy(name, hdr, removeOK) ==
    /\ srv = "serving"
    /\ IF ~Authenticated(hdr, secret)
       THEN /\ Deny("DELETE", "/proxies/{name}", name, hdr, <<>>)
            /\ UNCHANGED <<fs, inflight>>
       ELSE IF ~(removeOK /\ fs[name].final.exists)
       THEN /\ Answer("DELETE", "/proxies/{name}", name, hdr, <<>>, StatusNoContent,
                      RemoveErrMsg, <<>>, {}, ~removeOK)
            /\ UNCHANGED <<fs, inflight>>
       ELSE /\ fs' = [fs EXCEPT ![name].final = NoFile]
            /\ inflight' = Moved(inflight, name, "final", "orphan")
            /\ Answer("DELETE", "/proxies/{name}", name, hdr, <<>>, StatusOK,
                      <<>>, <<>>, {"final"}, FALSE)
    /\ UNCHANGED <<srv, secret, listener>>

(***************************************************************************)
(* POST /proxies/{name}: addProxyWithName and checkJSONAndRegister.  The   *)
(* handler is one step up to and including the open of os.WriteFile, then  *)
(* one step per file system call: write, close, rename.                    *)
(***************************************************************************)
\* the open without O_TRUNC: an existing temp file keeps its bytes
OpenTrunc_NoTrunc(dir, name) ==
    IF dir[name].temp.exists THEN dir ELSE [dir EXCEPT ![name].temp = File(<<>>)]

\* OpenFile(temppath, O_WRONLY|O_CREATE|O_TRUNC): the entry is created, or the
\* file it names is emptied
OpenTrunc(dir, name) == [dir EXCEPT ![name].temp = File(<<>>)]

addProxyWithName(name, hdr, rawData, openOK) ==
    /\ srv = "serving"
    /\ IF ~Authenticated(hdr, secret)
       THEN /\ Deny("POST", "/proxies/{name}", name, hdr, rawData)
            /\ UNCHANGED <<fs, inflight>>
       ELSE IF rawData = <<>>
       THEN /\ Answer("POST", "/proxies/{name}", name, hdr, rawData,
                      StatusBadRequest, <<>>, <<>>, {}, FALSE)
            /\ UNCHANGED <<fs, inflight>>
       ELSE IF ~JSONIsValid(rawData)
       THEN /\ Answer("POST", "/proxies/{name}", name, hdr, rawData,
                      StatusBadRequest, FailMsg, <<>>, {}, FALSE)
            /\ UNCHANGED <<fs, inflight>>
       ELSE IF ~openOK
       THEN /\ Answer("POST", "/proxies/{name}", name, hdr, rawData,
                      StatusBadRequest, FailMsg, <<>>, {}, TRUE)
            /\ UNCHANGED <<fs, inflight>>
       ELSE /\ fs' = OpenTrunc(fs, name)
            /\ inflight' = Put(inflight,
                               [name |-> name, body |-> rawData, pc |-> "write",
                                at |-> "temp", chg |-> Changed(fs, fs', name)])
            /\ UNCHANGED last
    /\ UNCHANGED <<srv, secret, listener>>

\* the bytes of the file the descriptor of q is open on, after q wrote k bytes
WriteResult(dir, q, k) ==
    IF q.at \in {"final", "temp"}
    THEN [dir EXCEPT ![q.name][q.at].data = WriteAt0(@, q.body, k)]
    ELSE dir

\* f.Write(data) of os.WriteFile: all of data, or an error after the first k bytes
WriteFileWrite(q, k) ==
    /\ BagIn(q, inflight)
    /\ q.pc = "write"
    /\ k \in 0..Len(q.body)
    /\ fs' = WriteResult(fs, q, k)
    /\ inflight' = Put(Take(inflight, q),
                       [q EXCEPT !.pc = IF k = Len(q.body) THEN "close" ELSE "closeErr",
                                 !.chg = @ \cup Changed(fs, fs', q.name)])
    /\ UNCHANGED <<srv, secret, listener, last>>

\* what the handler answers once checkJSONAndRegister has returned
PostAnswer(q, successful, fault) ==
    IF successful
    THEN Answer("POST", "/proxies/{name}", q.name, GoodHeader, q.body,
                StatusOK, SuccessMsg, <<>>, q.chg \cup Changed(fs, fs', q.name), fault)
    ELSE Answer("POST", "/proxies/{name}", q.name, GoodHeader, q.body,
                StatusBadRequest, FailMsg, <<>>, q.chg \cup Changed(fs, fs', q.name), fault)

\* f.Close() of os.WriteFile, and the return of checkJSONAndRegister on its error
WriteFileClose(q, closeOK) ==
    /\ BagIn(q, inflight)
    /\ q.pc \in {"close", "closeErr"}
    /\ IF q.pc = "close" /\ closeOK
       THEN /\ inflight' = Put(Take(inflight, q), [q EXCEPT !.pc = "rename", !.at = "closed"])
            /\ UNCHANGED <<fs, last>>
       ELSE /\ inflight' = Take(inflight, q)
            /\ fs' = fs
            /\ PostAnswer(q, FALSE, TRUE)
    /\ UNCHANGED <<srv, secret, listener>>

\* a rename that copies: the temp entry stays
RenameResult_KeepTemp(dir, name) ==
    [dir EXCEPT ![name].final = dir[name].temp]

\* os.Rename(temppath, path): the temp entry becomes the final entry
RenameResult(dir, name) ==
    [dir EXCEPT ![name] = [final |-> dir[name].temp, temp |-> NoFile]]

Rename(q, renameOK) ==
    /\ BagIn(q, inflight)
    /\ q.pc = "rename"
    /\ IF renameOK /\ fs[q.name].temp.exists
       THEN /\ fs' = RenameResult(fs, q.name)
            /\ inflight' = Moved(Moved(Take(inflight, q), q.name, "final", "orphan"),
                                 q.name, "temp", "final")
            /\ PostAnswer(q, TRUE, FALSE)
       ELSE /\ fs' = fs
            /\ inflight' = Take(inflight, q)
            /\ PostAnswer(q, FALSE, ~renameOK)
    /\ UNCHANGED <<srv, secret, listener>>

(***************************************************************************)
(* The API driven by its environment: configuration files, listener modes, *)
(* names, headers and bodies of the requests, the outcomes oks of the file *)
(* system calls that can fail (TRUE: the call does what the directory      *)
(* allows, FALSE: it fails), and at most cap POST handlers running.        *)
(***************************************************************************)
\* the numbers of bytes a write of q may store: all, or fewer when it fails
WriteCounts(q, oks) ==
    {Len(q.body)} \cup
        IF FALSE \in oks THEN {k \in 0..ShortWrite : k < Len(q.body)} ELSE {}

Serve(files, flips, names, hdrs, bodies, oks, cap) ==
    \/ \E file \in files : LoadConfig(file)
    \/ \E tableflip \in flips, bindOK \in oks : Listen(tableflip, bindOK)
    \/ ServeReturn
    \/ \E hdr \in hdrs : getHome(hdr)
    \/ \E hdr \in hdrs, readDirOK \in oks : getProxies(hdr, readDirOK)
    \/ \E name \in names, hdr \in hdrs, openOK, readOK \in oks :
          getProxy(name, hdr, openOK, readOK)
    \/ \E name \in names, hdr \in hdrs, removeOK \in oks :
          removeProxy(name, hdr, removeOK)
    \/ /\ BagCardinality(inflight) < cap
       /\ \E name \in names, hdr \in hdrs, rawData \in bodies, openOK \in oks :
             addProxyWithName(name, hdr, rawData, openOK)
    \/ \E q \in BagToSet(inflight) : \E k \in WriteCounts(q, oks) : WriteFileWrite(q, k)
    \/ \E q \in BagToSet(inflight), closeOK \in oks : WriteFileClose(q, closeOK)
    \/ \E q \in BagToSet(inflight), renameOK \in oks : Rename(q, renameOK)

\* the token and the header of the specifications about the store
TokenS == <<"s">>
FileS == [readable |-> TRUE, json |-> TRUE, bearerToken |-> TokenS]
HeaderS == Bearer \o Space \o TokenS
NameA == <<"a">>
Empty == <<"{", "}">>

\* concurrent POST handlers on one name, I/O errors and crashes
Next ==
    \/ Serve({FileS}, {FALSE}, {NameA}, {HeaderS}, {V1, V2, Empty}, BOOLEAN, MaxInFlight)
    \/ Crash

Spec == Init /\ [][Next]_vars

\* concurrent POST handlers on one name, no I/O error and no crash
NextRace ==
    Serve({FileS}, {FALSE}, {NameA}, {HeaderS}, {V1, V2}, {TRUE}, MaxInFlight)

SpecRace == Init /\ [][NextRace]_vars

\* one POST handler at a time: every name and body, I/O errors and crashes
NextSeq ==
    \/ Serve({FileS}, {FALSE}, Names, {HeaderS}, Bodies, BOOLEAN, 1)
    \/ Crash

SpecSeq == Init /\ [][NextSeq]_vars

\* every configuration file, listener mode and header; one POST handler at a time
NextAuth ==
    \/ Serve(ConfigFiles, BOOLEAN, {NameA}, Headers, {V1}, {TRUE}, 1)
    \/ Crash

SpecAuth == Init /\ [][NextAuth]_vars

\* one POST handler at a time on every name, no I/O error and no crash
NextNames ==
    Serve({FileS}, {FALSE}, Names, {HeaderS}, {V1, V2}, {TRUE}, 1)

SpecNames == Init /\ [][NextNames]_vars

\* both listener modes and binds that fail, with and without a header
NextBoot ==
    \/ Serve(ConfigFiles, BOOLEAN, {NameA}, {<<>>, HeaderS}, {V1}, BOOLEAN, 1)
    \/ Crash

SpecBoot == Init /\ [][NextBoot]_vars

\* concurrent POST handlers on every name, no I/O error and no crash
NextRaceNames ==
    Serve({FileS}, {FALSE}, Names, {HeaderS}, {V1}, {TRUE}, MaxInFlight)

SpecRaceNames == Init /\ [][NextRaceNames]_vars


(***************************************************************************)
(* Properties.                                                             *)
(***************************************************************************)
\* a descriptor that follows a directory entry is open on an existing file
DescriptorsOpen ==
    \A q \in BagToSet(inflight) :
        q.at \in {"final", "temp"} => fs[q.name][q.at].exists

\* this step answered a request
Answered == last' # last

ValidBodies == {b \in Bodies : JSONIsValid(b)}

\* the handler of the request ran: the middleware did not answer it
Handled(r) == r.method # "none" /\ r.status # StatusUnauthorized

IsGet(r) == r.method = "GET" /\ r.route = "/proxies/{name}"
IsList(r) == r.method = "GET" /\ r.route = "/proxies"
IsPost(r) == r.method = "POST"
IsDelete(r) == r.method = "DELETE"

\* C1: a POST that answered 200, followed with no step of another request in
\* between by a GET of the same name whose open and read do not fail, is
\* answered 200 with the posted bytes, whatever the file held before.
C1_PostThenGet ==
    [][(/\ IsPost(last) /\ last.status = StatusOK
        /\ Answered /\ IsGet(last') /\ Handled(last')
        /\ last'.name = last.name /\ ~last'.fault)
       => (last'.status = StatusOK /\ last'.out = last.body)]_vars

\* a GET returned the longer payload of a name whose temp file is a leftover
C1_Witness ==
    /\ IsGet(last) /\ last.status = StatusOK /\ last.out = V2
    /\ fs[last.name].temp.exists

\* C2: when no POST is running any more, the file of a name holds one of the
\* submitted payloads in full.
C2_OneWholePayload ==
    inflight = EmptyBag =>
        \A n \in Names : fs[n].final.exists => fs[n].final.data \in ValidBodies

\* C3: in every state the content under the final name is absent or a whole
\* payload that passed validation.
C3_FinalAlwaysWhole ==
    \A n \in Names : fs[n].final.exists => fs[n].final.data \in ValidBodies

\* the body is empty, does not deserialize, or lacks one of the two fields
Malformed(b) ==
    \/ b = <<>>
    \/ Unmarshal(b).err
    \/ Unmarshal(b).DomainNames = <<>>
    \/ Unmarshal(b).ProxyTo = ""

\* C4: a POST whose body is empty, does not deserialize or lacks domainNames
\* or proxyTo is answered 400 in a step that leaves the directory as it was.
C4_InvalidBodyNoMutation ==
    [][(Answered /\ IsPost(last') /\ Handled(last') /\ Malformed(last'.body))
       => (last'.status = StatusBadRequest /\ fs' = fs /\ last'.chg = {})]_vars

\* a body without proxyTo was refused and the file of the name is still there
C4_Witness ==
    /\ IsPost(last) /\ last.status = StatusBadRequest
    /\ last.body = <<"{", "D", "}">>
    /\ fs[last.name].final.exists /\ ~fs[last.name].temp.exists

\* C5: a POST answered 400 has changed no entry of the directory.
C5_BadRequestNoChange ==
    (IsPost(last) /\ last.status = StatusBadRequest) => last.chg = {}

\* C6: a POST with a valid payload that fails leaves the final file as it was.
C6_FailureKeepsFinal ==
    (IsPost(last) /\ Handled(last) /\ last.body \in ValidBodies
        /\ last.status # StatusOK)
    => "final" \notin last.chg

\* C7: a file system failure is answered 500: a POST with a valid payload that
\* does not succeed, and a GET /proxies whose directory read fails.
C7_IOErrorIs500 ==
    /\ (IsPost(last) /\ Handled(last) /\ last.body \in ValidBodies
           /\ last.status # StatusOK)
       => last.status = StatusInternalServerError
    /\ (IsList(last) /\ last.fault) => last.status = StatusInternalServerError

\* the header is the two tokens "Bearer" and the loaded secret, one space between
ExactBearer(hdr) ==
    /\ hdr = Bearer \o Space \o secret
    /\ \A i \in 1..Len(secret) : secret[i] # " "

\* C8: on every protected route the request reaches the handler exactly when
\* its header is "Bearer <secret>", and is answered 401 otherwise.
C8_AuthSameOnEveryRoute ==
    (last.method # "none" /\ last.route # "/")
    => (last.status # StatusUnauthorized <=> ExactBearer(last.hdr))

\* a DELETE with a wrong token was refused while the file exists
C8_Witness ==
    /\ IsDelete(last) /\ last.status = StatusUnauthorized
    /\ last.hdr = Bearer \o Space \o <<"t">>
    /\ fs[last.name].final.exists

\* C9 as claimed: GET / is answered an empty 200 whatever its header.
C9_RootOpen ==
    last.route = "/" => (last.status = StatusOK /\ last.out = <<>>)

\* C9 amended: GET / is behind the middleware like every other route: an empty
\* 200 with the header "Bearer <secret>", 401 otherwise.
C9_RootBehindAuth ==
    last.route = "/" =>
        IF ExactBearer(last.hdr)
        THEN last.status = StatusOK /\ last.out = <<>>
        ELSE last.status = StatusUnauthorized

\* GET / without a header was refused
C9_Witness ==
    last.route = "/" /\ last.hdr = <<>> /\ last.status = StatusUnauthorized

\* C10: a DELETE that removed the file of a name leaves the name without file;
\* the file comes back only by a POST that commits; while it is absent a GET
\* of the name is answered 404; and the list answered right after the DELETE
\* does not hold the name.
C10_DeletedStaysGone ==
    [][\A n \in Names :
        /\ (Answered /\ IsDelete(last') /\ last'.name = n /\ last'.status = StatusOK)
           => ~fs'[n].final.exists
        /\ (~fs[n].final.exists /\ fs'[n].final.exists)
           => (IsPost(last') /\ last'.name = n /\ last'.status = StatusOK)
        /\ (~fs[n].final.exists /\ Answered /\ IsGet(last') /\ Handled(last')
               /\ last'.name = n)
           => last'.status = StatusNotFound
        /\ (IsDelete(last) /\ last.name = n /\ last.status = StatusOK
               /\ Answered /\ IsList(last') /\ last'.status = StatusOK)
           => \A i \in 1..Len(last'.list) : last'.list[i] # n]_vars


\* the names that have a file under their final name
Committed(dir) == {n \in Names : dir[n].final.exists}

\* how many times name n stands in list l
Occurrences(l, n) == Cardinality({i \in 1..Len(l) : l[i] = n})

\* C11: with no POST running, GET /proxies answers every name that has a
\* committed file once, and no other name.
C11_ListIsCommittedNames ==
    [][(inflight = EmptyBag /\ Answered /\ IsList(last') /\ last'.status = StatusOK)
       => /\ \A n \in Committed(fs) : Occurrences(last'.list, n) = 1
          /\ \A i \in 1..Len(last'.list) : last'.list[i] \in Committed(fs)]_vars

\* C12: while a name has a temporary file and no committed file, GET /proxies
\* does not report the name and GET /proxies/{name} answers 404.
C12_TempIsNotCommitted ==
    [][\A n \in Names :
          (fs[n].temp.exists /\ ~fs[n].final.exists /\ Answered /\ Handled(last'))
          => /\ (IsList(last') /\ last'.status = StatusOK)
                => Occurrences(last'.list, n) = 0
             /\ (IsGet(last') /\ last'.name = n)
                => last'.status = StatusNotFound]_vars

\* C13: GET /proxies/{name} answers 404 exactly when the file does not
\* exist, 500 when the file exists and opening or reading it fails, and 200
\* with the bytes of the file otherwise.
C13_NotFoundOnlyWhenAbsent ==
    [][(Answered /\ IsGet(last') /\ Handled(last'))
       => LET f == fs[last'.name].final
          IN  /\ last'.status = StatusNotFound <=> ~f.exists
              /\ (f.exists /\ last'.fault)
                 => last'.status = StatusInternalServerError
              /\ (f.exists /\ ~last'.fault)
                 => last'.status = StatusOK /\ last'.out = f.data]_vars

\* C14: the secret is written only by the load at startup, before any request
\* is answered, and no handler changes it; a load that fails or finds no
\* token ends the startup, and a request is answered only by a process that
\* loaded a non-empty token.
C14_SecretSetOnceAtStartup ==
    [][/\ secret' # secret => (srv = "boot" \/ srv' = "boot")
       /\ (Answered /\ last'.method # "none")
          => /\ secret' = secret
             /\ secret # NoSecret
             /\ srv \in {"serving", "ended"}
       /\ (srv = "boot" /\ srv' # "boot" /\ secret' = NoSecret) => srv' = "fatal"
       /\ srv = "fatal" => (srv' \in {"fatal", "boot"} /\ last' \in {last, NoRequest})
      ]_vars

C14_Witness ==
    /\ secret = TokenS
    /\ IsPost(last)
    /\ last.status = StatusOK
    /\ fs[NameA].final.exists

\* the header is the word Bearer, one space, and a value without a space
TwoTokenBearer(hdr) ==
    /\ HasPrefix(hdr, Bearer \o Space)
    /\ \A i \in (Len(Bearer) + 2)..Len(hdr) : hdr[i] # " "

\* the reason of the first rule the header fails: missing, malformed, wrong token
FirstFailingRule(hdr) ==
    IF Len(hdr) = 0 THEN "No authorization header provided"
    ELSE IF ~TwoTokenBearer(hdr) THEN "Invalid authorization header format"
    ELSE "Invalid token"

\* C15: a request answered 401 changed no file, final or temporary, and
\* started no handler, on every route and in every state of the directory;
\* the body of the 401 is the reason of the first failing rule.
C15_DeniedNeverReachesHandler ==
    [][(Answered /\ last'.status = StatusUnauthorized)
       => /\ fs' = fs
          /\ inflight' = inflight
          /\ last'.chg = {}
          /\ last'.out = <<FirstFailingRule(last'.hdr)>>]_vars

C15_Witness ==
    /\ IsDelete(last)
    /\ last.status = StatusUnauthorized
    /\ last.hdr = <<>>
    /\ fs[NameA].final.exists
    /\ fs[NameA].temp.exists

\* C16: when the last running POST on a name completes, the final file is
\* the whole payload of the request whose rename landed last: of the
\* completing request when its rename lands, and otherwise of the request
\* that renamed just before it.
C16_LastRenameWins ==
    [][(inflight' = EmptyBag /\ Answered /\ IsPost(last') /\ Handled(last')
           /\ last'.body \in ValidBodies)
       => LET n == last'.name
          IN  IF last'.status = StatusOK
              THEN fs'[n].final = File(last'.body)
              ELSE (IsPost(last) /\ last.status = StatusOK /\ last.name = n)
                   => fs'[n].final = File(last.body)]_vars

\* C17: a DELETE that removes the file is answered 200 with an empty body; a
\* DELETE whose removal fails is answered 204 with the text of the error as
\* its body and changes no entry of the directory.
C17_DeleteFailureIs204WithText ==
    [][(Answered /\ IsDelete(last') /\ Handled(last'))
       => LET n == last'.name
          IN  IF fs[n].final.exists /\ ~last'.fault
              THEN /\ last'.status = StatusOK
                   /\ last'.out = <<>>
                   /\ fs' = [fs EXCEPT ![n].final = NoFile]
              ELSE /\ last'.status = StatusNoContent
                   /\ last'.out = RemoveErrMsg
                   /\ fs' = fs]_vars

\* C18: a process takes its listener once: from the upgrade provider when
\* the toggle is on, by binding directly when it is off, and it keeps that
\* one; a bind that fails ends the service with the process alive, is not
\* tried again, and no request is accepted afterwards.
C18_ListenerChosenOnce ==
    [][/\ listener' # listener
          => \/ srv = "loaded" /\ listener = NoListener /\ listener' # NoListener
             \/ srv' = "boot" /\ listener' = NoListener
       /\ listener.from = "upgrade" <=> listener.tableflip
       /\ listener.from = "direct" <=> (listener # NoListener /\ ~listener.tableflip)
       /\ srv = "loaded" => srv' \in {"loaded", "serving", "ended", "boot"}
       /\ srv = "ended" => srv' \in {"ended", "boot"}
       /\ srv \in {"serving", "ended"} <=> listener # NoListener
       /\ (srv = "ended" /\ inflight = EmptyBag)
          => (inflight' = EmptyBag /\ fs' = fs /\ last' \in {last, NoRequest})
      ]_vars

C18_Witness ==
    /\ srv = "ended"
    /\ listener = [tableflip |-> TRUE, from |-> "upgrade"]
    /\ last = NoRequest
    /\ \A n \in Names : fs[n] = [final |-> NoFile, temp |-> NoFile]

\* C19: after a POST to a name succeeded, GET /proxies contains that name
\* itself as long as its file is committed, also when the name contains
\* ".json"; two committed names are never listed as the same name.
C19_ListedNameIsRouteName ==
    [][(Answered /\ IsList(last') /\ last'.status = StatusOK)
       => /\ \A n \in Committed(fs) : Occurrences(last'.list, n) > 0
          /\ \A i, j \in 1..Len(last'.list) :
                i # j => last'.list[i] # last'.list[j]]_vars

\* C20: without I/O errors and crashes, whenever no POST is running the
\* directory holds no temporary file, whatever POST and DELETE requests ran
\* together on whatever names.
C20_NoTempWhenQuiescent ==
    inflight = EmptyBag => \A n \in Names : ~fs[n].temp.exists

\* two POST ran together on a name: one renamed, the other found no temporary
\* file left and was answered 400
C20_Witness ==
    /\ inflight = EmptyBag
    /\ IsPost(last)
    /\ last.name = NameA
    /\ last.status = StatusBadRequest
    /\ last.body \in ValidBodies
    /\ fs[NameA].final.exists
    /\ \A n \in Names : ~fs[n].temp.exists

=============================================================================
